---- MODULE Spec2Model ----
(***************************************************************************)
(* Model of the pull-request review workflow of src/agent.py: three        *)
(* FunctionAgents (ContextAgent, CommentorAgent, ReviewAndPostingAgent),   *)
(* their tools and handoff lists, the workflow's root agent and initial    *)
(* state, the tools' bodies, and main().  The loop that asks the decision  *)
(* engine for an action and executes it is the AgentWorkflow object that   *)
(* src/agent.py only constructs and runs; its steps are modelled from      *)
(* section 4.4 of the specification (Orchestrator state machine).          *)
(*                                                                         *)
(* Environment assumed: GITHUB_TOKEN and PR_NUMBER are set and the         *)
(* repository is reachable, so git.get_repo succeeds; a tool fails when    *)
(* the object it names (commit, file, pull request) does not exist.        *)
(***************************************************************************)
EXTENDS Naturals, Sequences, FiniteSets, TLC

VARIABLES
    current_agent_name, \* the active worker
    status,             \* Running / Terminated(text) / Failed(kind)
    state,              \* the workflow's shared "state" dictionary
    trace,              \* ordered events of the run
    steps,              \* decisions taken so far
    last,               \* the action the decision engine chose last
    nexec,              \* tool bodies executed so far
    posted,             \* reviews created on GitHub by post_pr_comment
    pc,                 \* main(): "stream" while the run goes on, then "done"
    result,             \* what main() got from `await handler`
    heap,               \* the dictionary objects; heap[1] is the initial_state literal
    store,              \* per run, the object its Context holds under "state" (0: not started)
    task,               \* per run, the tool calls of one decision as coroutines
    oplog               \* per run, the order of the calls' store.get and store.set

\* The dictionaries and the write tools' coroutines at their await points.
tvars == <<heap, store, task, oplog>>

vars == <<current_agent_name, status, state, trace, steps, last, nexec, posted, pc, result,
          heap, store, task, oplog>>

(* ------------------------------ bounds -------------------------------- *)

\* Most decisions the orchestrator takes in one run (the configured maximum).
MaxSteps == 5

\* Most tool calls one decision selects.
MaxCalls == 2

(* ----------------------- declarations of agent.py --------------------- *)

ContextAgent == "ContextAgent"
CommentorAgent == "CommentorAgent"
ReviewAndPostingAgent == "ReviewAndPostingAgent"

changed_files_tool == "get_changed_files_tool"
get_file_content_tool == "get_file_content_tool"
get_pr_list_tool == "get_pr_list_tool"
add_context_to_state_tool == "add_context_to_state_tool"
add_final_comment_to_state_tool == "add_final_comment_to_state_tool"
add_draft_comment_to_state_tool == "add_comment_to_state_tool"
post_pr_comment_tool == "post_pr_comment_tool"
get_pr_details_tool == "get_pr_details_tool"

\* The tools agent.py builds with FunctionTool.from_defaults.
AllTools ==
    { changed_files_tool, get_file_content_tool, get_pr_list_tool,
      add_context_to_state_tool, add_final_comment_to_state_tool,
      add_draft_comment_to_state_tool, post_pr_comment_tool, get_pr_details_tool }

\* AgentWorkflow(agents=[context_agent, commentor_agent, review_and_poster_agent]).
agents == { ContextAgent, CommentorAgent, ReviewAndPostingAgent }

\* A root that is not the configured one (mutation of root_agent).
root_agent_commentor == CommentorAgent

\* AgentWorkflow(root_agent=review_and_poster_agent.name).
root_agent == ReviewAndPostingAgent

\* The tool lists with post_pr_comment_tool also given to CommentorAgent
\* (mutation of tools).
tools_commentor_posts(w) ==
    CASE w = ContextAgent ->
           { changed_files_tool, get_pr_details_tool, get_pr_list_tool,
             get_file_content_tool, add_context_to_state_tool }
      [] w = CommentorAgent -> { add_draft_comment_to_state_tool, post_pr_comment_tool }
      [] w = ReviewAndPostingAgent ->
           { post_pr_comment_tool, add_final_comment_to_state_tool }

\* FunctionAgent(tools=[...]) of each agent.
tools(w) ==
    CASE w = ContextAgent ->
           { changed_files_tool, get_pr_details_tool, get_pr_list_tool,
             get_file_content_tool, add_context_to_state_tool }
      [] w = CommentorAgent -> { add_draft_comment_to_state_tool }
      [] w = ReviewAndPostingAgent ->
           { post_pr_comment_tool, add_final_comment_to_state_tool }

\* The handoff lists with ContextAgent also open to ReviewAndPostingAgent
\* (mutation of can_handoff_to).
can_handoff_to_root_to_context(w) ==
    CASE w = ContextAgent -> { CommentorAgent }
      [] w = CommentorAgent -> { ContextAgent, ReviewAndPostingAgent }
      [] w = ReviewAndPostingAgent -> { CommentorAgent, ContextAgent }

\* The handoff lists with every agent open to both others
\* (mutation of can_handoff_to).
can_handoff_to_any_peer(w) == agents \ { w }

\* FunctionAgent(can_handoff_to=[...]) of each agent.
can_handoff_to(w) ==
    CASE w = ContextAgent -> { CommentorAgent }
      [] w = CommentorAgent -> { ContextAgent, ReviewAndPostingAgent }
      [] w = ReviewAndPostingAgent -> { CommentorAgent }

\* AgentWorkflow(initial_state={...}).
initial_state ==
    [ gathered_contexts |-> "", draft_comment |-> "", fina_response |-> "" ]

(* ------------------------ the GitHub repository ----------------------- *)

\* Objects that exist in the repository the tools talk to.
ExistingCommits == { "sha_head" }
ExistingFiles == { "main.py" }
ExistingPulls == { "pr_1" }

\* Arguments the decision engine may synthesize.
Shas == { "sha_head", "sha_unknown" }
Paths == { "main.py", "missing.py" }
PrNumbers == { "pr_1", "pr_404" }
Comments == { "LGTM" }
FinalReview == "Final review: LGTM, approved."
OutputTexts == { "done", FinalReview }

\* Reviews are posted to pull requests that exist; a missing pull request
\* is asked for through get_pr_details_tool.
ArgsOf(tool) ==
    CASE tool = changed_files_tool -> { <<s>> : s \in Shas }
      [] tool = get_file_content_tool -> { <<p>> : p \in Paths }
      [] tool = get_pr_list_tool -> { <<>> }
      [] tool = get_pr_details_tool -> { <<n>> : n \in PrNumbers }
      [] tool = post_pr_comment_tool -> { <<n, c>> : n \in ExistingPulls, c \in Comments }
      [] OTHER -> { <<c>> : c \in Comments }

\* Ill-formed arguments the decision engine may synthesize: a text where
\* the pull request number belongs.
BadArgsOf(tool) ==
    IF tool = post_pr_comment_tool THEN { <<"LGTM", "LGTM">> } ELSE {}

\* The Python type of an argument value: pull request numbers are ints,
\* everything else is text.
TypeOf(v) == IF v \in PrNumbers THEN "int" ELSE "str"

\* The parameter types with pr_number left untyped (mutation of Schema).
Schema_untyped_pr_number(tool) ==
    CASE tool = get_pr_list_tool -> <<>>
      [] tool = post_pr_comment_tool -> << "any", "str" >>
      [] tool = get_pr_details_tool -> << "any" >>
      [] OTHER -> << "str" >>

\* The parameter types of each tool's function (Context excluded).
Schema(tool) ==
    CASE tool = get_pr_list_tool -> <<>>
      [] tool = post_pr_comment_tool -> << "int", "str" >>
      [] tool = get_pr_details_tool -> << "int" >>
      [] OTHER -> << "str" >>

\* Do the arguments match the capability's input schema?
ValidArgs(tool, a) ==
    /\ Len(a) = Len(Schema(tool))
    /\ \A i \in 1..Len(a) : Schema(tool)[i] \in { "any", TypeOf(a[i]) }

(* ------------------------------ the tools ----------------------------- *)

\* What a tool body does: it returns `output` or raises, and leaves the
\* shared state and the posted reviews as given.
Returned(out, st, rv) == [ raised |-> FALSE, output |-> out, state |-> st, posted |-> rv ]
Raised(st, rv) == [ raised |-> TRUE, output |-> "", state |-> st, posted |-> rv ]

ErrorFetching == "Error fetching file content: "

\* A dictionary built anew with the one key (mutation of SetItem).
SetItem_fresh(st, key, value) == [ k \in {key} |-> value ]

\* current_state[key] = value on the dictionary read from the store.
SetItem(st, key, value) ==
    [ k \in (DOMAIN st) \cup {key} |-> IF k = key THEN value ELSE st[k] ]

\* The store's read of one key that fails on a key never set
\* (mutation of Get).
Get_subscript(st, key) == IF key \in DOMAIN st THEN st[key] ELSE "KeyError"

\* The value every unset key reads as.
DefaultValue == ""

\* Shared State Store get(key): the current value, or the default if unset.
Get(st, key) == IF key \in DOMAIN st THEN st[key] ELSE DefaultValue

get_changed_files(head_sha, st, rv) ==
    IF head_sha \in ExistingCommits THEN Returned("changed_files", st, rv)
    ELSE Raised(st, rv)

\* get_file_content with the failure passed on instead of reported
\* (mutation of get_file_content).
get_file_content_silent(file_path, st, rv) ==
    IF file_path \in ExistingFiles THEN Returned("file_content", st, rv)
    ELSE Returned("", st, rv)

get_file_content(file_path, st, rv) ==
    IF file_path \in ExistingFiles THEN Returned("file_content", st, rv)
    ELSE Returned(ErrorFetching, st, rv)

get_pr_list(st, rv) == Returned("pr_list", st, rv)

add_context_to_state(gathered_contexts, st, rv) ==
    Returned("State updated with report contexts. ",
             SetItem(st, "gathered_contexts", gathered_contexts), rv)

add_final_comment_to_state(final_review_comment, st, rv) ==
    Returned("Final comment successfully added to state. ",
             SetItem(st, "final_review_comment", final_review_comment), rv)

add_draft_comment_to_state(draft_comment, st, rv) ==
    Returned("Comment added to state. ",
             SetItem(st, "review_comment", draft_comment), rv)

post_pr_comment(pr_number, comment, st, rv) ==
    IF pr_number \in ExistingPulls
    THEN Returned("PullRequestReview", st, Append(rv, <<pr_number, comment>>))
    ELSE Raised(st, rv)

\* get_pr_details keeping what it fetched in the shared state
\* (mutation of get_pr_details).
get_pr_details_caching(pr_number, st, rv) ==
    IF pr_number \in ExistingPulls
    THEN Returned("message_dict", SetItem(st, "gathered_contexts", "message_dict"), rv)
    ELSE Raised(st, rv)

get_pr_details(pr_number, st, rv) ==
    IF pr_number \in ExistingPulls THEN Returned("message_dict", st, rv)
    ELSE Raised(st, rv)

\* The body registered under each tool name.
CallTool(tool, a, st, rv) ==
    CASE tool = changed_files_tool -> get_changed_files(a[1], st, rv)
      [] tool = get_file_content_tool -> get_file_content(a[1], st, rv)
      [] tool = get_pr_list_tool -> get_pr_list(st, rv)
      [] tool = add_context_to_state_tool -> add_context_to_state(a[1], st, rv)
      [] tool = add_final_comment_to_state_tool -> add_final_comment_to_state(a[1], st, rv)
      [] tool = add_draft_comment_to_state_tool -> add_draft_comment_to_state(a[1], st, rv)
      [] tool = post_pr_comment_tool -> post_pr_comment(a[1], a[2], st, rv)
      [] tool = get_pr_details_tool -> get_pr_details(a[1], st, rv)

(* ---------------------------- the run --------------------------------- *)

Running == [ kind |-> "Running", info |-> "" ]
Terminated(text) == [ kind |-> "Terminated", info |-> text ]
Failed(error) == [ kind |-> "Failed", info |-> error ]

Event(ev, w, detail) == [ event |-> ev, agent |-> w, detail |-> detail ]

NoAction == [ type |-> "None", name |-> "", arg |-> <<>> ]

\* Runs of the one workflow_agent, and the places for a decision's tool calls.
Runs == { 1, 2 }
CallIds == 1..MaxCalls
NoCall == [ pc |-> "none", tool |-> "", arg |-> "", local |-> 0 ]
NoResult == [ outcome |-> "none", value |-> "" ]

Init ==
    /\ current_agent_name = root_agent
    /\ status = Running
    /\ state = initial_state
    /\ trace = <<>>
    /\ steps = 0
    /\ last = NoAction
    /\ nexec = 0
    /\ posted = <<>>
    /\ pc = "stream"
    /\ result = NoResult
    /\ heap = << initial_state >>
    /\ store = [ r \in Runs |-> 0 ]
    /\ task = [ r \in Runs |-> [ i \in CallIds |-> NoCall ] ]
    /\ oplog = [ r \in Runs |-> <<>> ]

\* The check with the limit passed by one (mutation of CanDecide).
CanDecide_late == status.kind = "Running" /\ steps <= MaxSteps

\* The check without the status (mutation of CanDecide).
CanDecide_any_status == steps < MaxSteps

\* The step counter is checked before each decision.
CanDecide == status.kind = "Running" /\ steps < MaxSteps

\* Is the capability in the active worker's subset?
CapabilityAllowed(w, tool) == tool \in tools(w)

\* Is the target in the active worker's peer set?
HandoffAllowed(w, target) == target \in can_handoff_to(w)

\* Decision Invoke{tool, a}.
Invoke(tool, a) ==
    /\ UNCHANGED tvars
    /\ CanDecide
    /\ steps' = steps + 1
    /\ last' = [ type |-> "Invoke", name |-> tool, arg |-> a ]
    /\ IF ~CapabilityAllowed(current_agent_name, tool)
       THEN /\ trace' = Append(trace, Event("UnauthorizedCapabilityError", current_agent_name, ""))
            /\ UNCHANGED <<state, posted, nexec>>
       ELSE IF ~ValidArgs(tool, a)
       THEN /\ trace' = Append(trace, Event("InvalidArgumentError", current_agent_name, ""))
            /\ UNCHANGED <<state, posted, nexec>>
       ELSE LET r == CallTool(tool, a, state, posted) IN
            /\ nexec' = nexec + 1
            /\ state' = r.state
            /\ posted' = r.posted
            /\ trace' = Append(trace,
                    IF r.raised
                    THEN Event("CapabilityExecutionError", current_agent_name, "")
                    ELSE Event("ToolCallResult", current_agent_name, r.output))
    /\ UNCHANGED <<current_agent_name, status, pc, result>>

\* Decision Handoff{target}.
Handoff(target) ==
    /\ UNCHANGED tvars
    /\ CanDecide
    /\ steps' = steps + 1
    /\ last' = [ type |-> "Handoff", name |-> target, arg |-> <<>> ]
    /\ IF HandoffAllowed(current_agent_name, target)
       THEN /\ current_agent_name' = target
            /\ trace' = Append(trace, Event("Handoff", current_agent_name, target))
       ELSE /\ current_agent_name' = current_agent_name
            /\ trace' = Append(trace, Event("UnauthorizedHandoffError", current_agent_name, ""))
    /\ UNCHANGED <<status, state, nexec, posted, pc, result>>

\* An Output that is recorded but does not end the run (mutation of Output).
Output_not_terminal(text) ==
    /\ UNCHANGED tvars
    /\ CanDecide
    /\ steps' = steps + 1
    /\ last' = [ type |-> "Output", name |-> text, arg |-> <<>> ]
    /\ trace' = Append(trace, Event("Output", current_agent_name, text))
    /\ UNCHANGED <<current_agent_name, status, state, nexec, posted, pc, result>>

\* Decision Output{text}.
Output(text) ==
    /\ UNCHANGED tvars
    /\ CanDecide
    /\ steps' = steps + 1
    /\ last' = [ type |-> "Output", name |-> text, arg |-> <<>> ]
    /\ status' = Terminated(text)
    /\ trace' = Append(trace, Event("Output", current_agent_name, text))
    /\ UNCHANGED <<current_agent_name, state, nexec, posted, pc, result>>

\* The decision backend produced no valid action.
DecisionFailure ==
    /\ UNCHANGED tvars
    /\ CanDecide
    /\ status' = Failed("DecisionError")
    /\ UNCHANGED <<current_agent_name, state, trace, steps, last, nexec, posted, pc, result>>

\* The step counter has reached the configured maximum.
StepLimit ==
    /\ UNCHANGED tvars
    /\ status.kind = "Running"
    /\ steps >= MaxSteps
    /\ status' = Failed("StepLimitExceeded")
    /\ UNCHANGED <<current_agent_name, state, trace, steps, last, nexec, posted, pc, result>>

\* main() with the failure of the run swallowed (mutation of main).
main_silent ==
    /\ UNCHANGED tvars
    /\ pc = "stream"
    /\ status.kind # "Running"
    /\ pc' = "done"
    /\ result' = IF status.kind = "Terminated"
                 THEN [ outcome |-> "response", value |-> status.info ]
                 ELSE NoResult
    /\ UNCHANGED <<current_agent_name, status, state, trace, steps, last, nexec, posted>>

\* main() printing a final response whatever the run's end (mutation of main).
main_prints_anyway ==
    /\ UNCHANGED tvars
    /\ pc = "stream"
    /\ status.kind # "Running"
    /\ pc' = "done"
    /\ result' = [ outcome |-> "response",
                   value |-> IF status.kind = "Terminated" THEN status.info ELSE "" ]
    /\ UNCHANGED <<current_agent_name, status, state, trace, steps, last, nexec, posted>>

\* main(): final_result = await handler; print(final_result.response.content).
main ==
    /\ UNCHANGED tvars
    /\ pc = "stream"
    /\ status.kind # "Running"
    /\ pc' = "done"
    /\ result' = IF status.kind = "Terminated"
                 THEN [ outcome |-> "response", value |-> status.info ]
                 ELSE [ outcome |-> "raised", value |-> status.info ]
    /\ UNCHANGED <<current_agent_name, status, state, trace, steps, last, nexec, posted>>

\* Names a decision may hand off to: the declared agents and one that is not.
HandoffTargets == agents \cup { "UnknownAgent" }

Next ==
    \/ \E tool \in AllTools : \E a \in ArgsOf(tool) \cup BadArgsOf(tool) : Invoke(tool, a)
    \/ \E target \in HandoffTargets : Handoff(target)
    \/ \E text \in OutputTexts : Output(text)
    \/ DecisionFailure
    \/ StepLimit
    \/ main

Spec == Init /\ [][Next]_vars

\* The orchestrator loop and main() keep running while they have a step to take.
FairSpec == Spec /\ WF_vars(Next)

(* ------------- the write tools as coroutines, and several runs -------- *)

\* The run's own variables, which the coroutine steps below leave alone.
mvars == <<current_agent_name, status, state, trace, steps, last, nexec, posted, pc, result>>

\* The key each write tool assigns.
KeyOf(tool) ==
    CASE tool = add_context_to_state_tool -> "gathered_contexts"
      [] tool = add_final_comment_to_state_tool -> "final_review_comment"
      [] tool = add_draft_comment_to_state_tool -> "review_comment"

\* The write tools: the async functions that take the Context.
StateTools ==
    { add_context_to_state_tool, add_final_comment_to_state_tool,
      add_draft_comment_to_state_tool }

\* Texts a decision may pass to a write tool.
Values == { "LGTM", "v2" }

\* A call is in progress from its start to its return.
InProgress(r, i) == task[r][i].pc \in { "get", "assign", "set" }

\* A run whose store is the workflow's own initial_state dictionary
\* (mutation of StartRun).
StartRun_shared(r) ==
    /\ store[r] = 0
    /\ store' = [ store EXCEPT ![r] = 1 ]
    /\ UNCHANGED <<heap, task, oplog>>
    /\ UNCHANGED mvars

\* workflow_agent.run(...): the run's store is created with the seed values.
StartRun(r) ==
    /\ store[r] = 0
    /\ heap' = Append(heap, heap[1])
    /\ store' = [ store EXCEPT ![r] = Len(heap') ]
    /\ UNCHANGED <<task, oplog>>
    /\ UNCHANGED mvars

\* A decision of the run selects the tool calls `calls` (AgentOutput.tool_calls).
Select(r, calls) ==
    /\ store[r] # 0
    /\ \A i \in CallIds : task[r][i].pc = "none"
    /\ task' = [ task EXCEPT ![r] =
                   [ i \in CallIds |->
                       IF i <= Len(calls)
                       THEN [ pc |-> "ready", tool |-> calls[i].tool,
                              arg |-> calls[i].arg, local |-> 0 ]
                       ELSE NoCall ] ]
    /\ UNCHANGED <<heap, store, oplog>>
    /\ UNCHANGED mvars

\* A selected call started whatever else is running (mutation of Dispatchable).
Dispatchable_at_once(r, i) == task[r][i].pc = "ready"

\* The orchestrator starts a selected call when the calls before it have
\* returned: one capability invocation at a time.
Dispatchable(r, i) ==
    /\ task[r][i].pc = "ready"
    /\ \A j \in CallIds : j < i => task[r][j].pc \in { "done", "none" }
    /\ \A j \in CallIds : ~InProgress(r, j)

\* The call starts and suspends at `await ctx.store.get("state")`.
CallStart(r, i, exclusive) ==
    /\ IF exclusive THEN Dispatchable(r, i) ELSE task[r][i].pc = "ready"
    /\ task' = [ task EXCEPT ![r][i].pc = "get" ]
    /\ UNCHANGED <<heap, store, oplog>>
    /\ UNCHANGED mvars

\* ctx.store.get("state") hands the call the dictionary the store holds.
CallGet(r, i) ==
    /\ task[r][i].pc = "get"
    /\ task' = [ task EXCEPT ![r][i].pc = "assign", ![r][i].local = store[r] ]
    /\ oplog' = [ oplog EXCEPT ![r] = Append(@, <<"get", i>>) ]
    /\ UNCHANGED <<heap, store>>
    /\ UNCHANGED mvars

\* The assignment made on a copy of the dictionary (mutation of CallAssign).
CallAssign_on_copy(r, i) ==
    /\ task[r][i].pc = "assign"
    /\ heap' = Append(heap, SetItem(heap[task[r][i].local],
                                    KeyOf(task[r][i].tool), task[r][i].arg))
    /\ task' = [ task EXCEPT ![r][i].pc = "set", ![r][i].local = Len(heap') ]
    /\ oplog' = [ oplog EXCEPT ![r] = Append(@, <<"set", i>>) ]
    /\ UNCHANGED store
    /\ UNCHANGED mvars

\* The call resumes: current_state[key] = value on the dictionary it was
\* handed, then ctx.store.set("state", current_state) is called and awaited.
CallAssign(r, i) ==
    /\ task[r][i].pc = "assign"
    /\ heap' = [ heap EXCEPT ![task[r][i].local] =
                   SetItem(@, KeyOf(task[r][i].tool), task[r][i].arg) ]
    /\ task' = [ task EXCEPT ![r][i].pc = "set" ]
    /\ oplog' = [ oplog EXCEPT ![r] = Append(@, <<"set", i>>) ]
    /\ UNCHANGED store
    /\ UNCHANGED mvars

\* ctx.store.set puts the call's dictionary under "state"; the call returns.
CallSet(r, i) ==
    /\ task[r][i].pc = "set"
    /\ store' = [ store EXCEPT ![r] = task[r][i].local ]
    /\ task' = [ task EXCEPT ![r][i].pc = "done" ]
    /\ UNCHANGED <<heap, oplog>>
    /\ UNCHANGED mvars

\* The text every call of a run passes when runs are told apart by it.
ValueOfRun(r) == IF r = 1 THEN "LGTM" ELSE "v2"

\* Selections of one to MaxCalls calls with arguments from `values`.
Selections(values) ==
    UNION { [ 1..n -> [ tool : StateTools, arg : values ] ] : n \in 1..MaxCalls }

\* Two runs of the workflow, each executing its selected calls one at a time.
RunsNext ==
    \/ \E r \in Runs : StartRun(r)
    \/ \E r \in Runs : \E calls \in Selections({ ValueOfRun(r) }) : Select(r, calls)
    \/ \E r \in Runs : \E i \in CallIds : CallStart(r, i, TRUE)
    \/ \E r \in Runs : \E i \in CallIds : CallGet(r, i)
    \/ \E r \in Runs : \E i \in CallIds : CallAssign(r, i)
    \/ \E r \in Runs : \E i \in CallIds : CallSet(r, i)

RunsSpec == Init /\ [][RunsNext]_vars

\* The two calls whose interleaving is examined.
RaceCalls == [ { 1, 2 } -> [ tool : StateTools, arg : Values ] ]

\* One run whose two selected write calls are scheduled in any order at
\* their await points.
RaceNext ==
    \/ StartRun(1)
    \/ \E calls \in RaceCalls : Select(1, calls)
    \/ \E i \in CallIds : CallStart(1, i, FALSE)
    \/ \E i \in CallIds : CallGet(1, i)
    \/ \E i \in CallIds : CallAssign(1, i)
    \/ \E i \in CallIds : CallSet(1, i)

RaceSpec == Init /\ [][RaceNext]_vars

(* ============================== claims ================================ *)

LastEvent == trace[Len(trace)]

\* The step just taken is a decision of the engine.
Decided == steps' = steps + 1

(* C1: in every reachable state the active worker is one of the three      *)
(* declared workers, and before the first decision it is the root worker   *)
(* ReviewAndPostingAgent.                                                  *)
C1_ActiveWorkerDeclared ==
    /\ current_agent_name \in { "ContextAgent", "CommentorAgent", "ReviewAndPostingAgent" }
    /\ steps = 0 => current_agent_name = "ReviewAndPostingAgent"

\* The active worker has moved off the root to ContextAgent, and a handoff
\* to an undeclared name has been refused on the way.
C1_Witness ==
    /\ current_agent_name = ContextAgent
    /\ \E i \in 1..Len(trace) : trace[i].event = "UnauthorizedHandoffError"

(* C2: a Handoff decision whose target is not in the active worker's       *)
(* can_handoff_to list leaves the active worker and the Running status as  *)
(* they were and appends an UnauthorizedHandoffError entry to the trace;   *)
(* in the configured workflow these are all handoffs but                   *)
(* ReviewAndPostingAgent -> CommentorAgent, ContextAgent -> CommentorAgent *)
(* and CommentorAgent -> ContextAgent or ReviewAndPostingAgent.            *)
C2_UnauthorizedHandoff ==
    /\ [][ ( /\ Decided
             /\ last'.type = "Handoff"
             /\ last'.name \notin can_handoff_to(current_agent_name) )
           => ( /\ current_agent_name' = current_agent_name
                /\ status = Running /\ status' = Running
                /\ trace' = Append(trace,
                       Event("UnauthorizedHandoffError", current_agent_name, "")) ) ]_vars
    /\ [][ ( /\ Decided
             /\ last'.type = "Handoff"
             /\ \/ current_agent_name = "ReviewAndPostingAgent" /\ last'.name # "CommentorAgent"
                \/ current_agent_name = "ContextAgent" /\ last'.name # "CommentorAgent"
                \/ current_agent_name = "CommentorAgent"
                      /\ last'.name \notin { "ContextAgent", "ReviewAndPostingAgent" } )
           => current_agent_name' = current_agent_name ]_vars

\* ReviewAndPostingAgent asked for ContextAgent, a declared agent that is
\* not its peer, and is still the active worker.
C2_Witness ==
    /\ last = [ type |-> "Handoff", name |-> ContextAgent, arg |-> <<>> ]
    /\ current_agent_name = ReviewAndPostingAgent
    /\ status = Running
    /\ Len(trace) > 0
    /\ LastEvent.event = "UnauthorizedHandoffError"

(* C3: an Invoke decision naming a tool outside the active worker's tools  *)
(* runs no tool body (the shared state, the posted reviews and the count   *)
(* of executions are unchanged) and appends an                             *)
(* UnauthorizedCapabilityError entry to the trace; in the configured       *)
(* workflow a review is posted only while ReviewAndPostingAgent, the one   *)
(* worker holding post_pr_comment_tool, is active.                         *)
C3_UnauthorizedCapability ==
    /\ [][ ( /\ Decided
             /\ last'.type = "Invoke"
             /\ last'.name \notin tools(current_agent_name) )
           => ( /\ state' = state
                /\ posted' = posted
                /\ nexec' = nexec
                /\ status' = status
                /\ trace' = Append(trace,
                       Event("UnauthorizedCapabilityError", current_agent_name, "")) ) ]_vars
    /\ [][ posted' # posted => current_agent_name = "ReviewAndPostingAgent" ]_vars

\* CommentorAgent asked for post_pr_comment_tool on an existing pull
\* request; nothing was posted.
C3_Witness ==
    /\ last = [ type |-> "Invoke", name |-> post_pr_comment_tool, arg |-> <<"pr_1", "LGTM">> ]
    /\ current_agent_name = CommentorAgent
    /\ Len(trace) > 0
    /\ LastEvent.event = "UnauthorizedCapabilityError"
    /\ posted = <<>>

(* C4: the step counter grows by one with each decision and never          *)
(* decreases, never passes MaxSteps, the run fails with StepLimitExceeded  *)
(* only when the counter equals MaxSteps, and the only step a run still    *)
(* Running at MaxSteps decisions takes is to fail with StepLimitExceeded.  *)
C4_StepLimit ==
    /\ [](steps <= MaxSteps)
    /\ [](status = Failed("StepLimitExceeded") => steps = MaxSteps)
    /\ [][ /\ steps' = steps \/ steps' = steps + 1
           /\ (trace' # trace \/ last' # last) => steps' = steps + 1 ]_vars
    /\ [][ (steps = MaxSteps /\ status = Running)
           => (status' = Failed("StepLimitExceeded") /\ steps' = steps /\ trace' = trace) ]_vars

\* ReviewAndPostingAgent and CommentorAgent handed off to each other at
\* every step until the limit failed the run.
C4_Witness ==
    /\ status = Failed("StepLimitExceeded")
    /\ Len(trace) = MaxSteps
    /\ \A i \in 1..Len(trace) :
          /\ trace[i].event = "Handoff"
          /\ trace[i].agent = (IF i % 2 = 1 THEN ReviewAndPostingAgent ELSE CommentorAgent)
          /\ trace[i].detail = (IF i % 2 = 1 THEN CommentorAgent ELSE ReviewAndPostingAgent)

C6_OutputDone ==
    ( /\ Len(trace) > 0
      /\ trace[1] = Event("Output", root_agent, "done") )
    => ( /\ status = Terminated("done")
         /\ steps = 1
         /\ Len(trace) = 1
         /\ nexec = 0
         /\ posted = <<>>
         /\ current_agent_name = root_agent
         /\ state = initial_state
         /\ pc = "done" => result = [ outcome |-> "response", value |-> "done" ] )

\* The root worker output "done" at once and main() has its response.
C6_Witness ==
    /\ trace = << Event("Output", ReviewAndPostingAgent, "done") >>
    /\ pc = "done"
    /\ result.value = "done"

\* The scenario of C7 on the configured workflow: Reviewer is
\* ReviewAndPostingAgent, Drafter is CommentorAgent, save-draft is
\* add_comment_to_state_tool, draft_artifact is the seeded key draft_comment.
C7_ScenarioRun ==
    trace = << Event("Handoff", ReviewAndPostingAgent, CommentorAgent),
               Event("ToolCallResult", CommentorAgent, "Comment added to state. "),
               Event("Handoff", CommentorAgent, ReviewAndPostingAgent),
               Event("Handoff", ReviewAndPostingAgent, CommentorAgent),
               Event("Output", CommentorAgent, FinalReview) >>

(* C7: after Reviewer -> Drafter, Drafter saves the draft "LGTM", Drafter  *)
(* -> Reviewer, Reviewer -> Drafter and Drafter's Output of the final      *)
(* review, the run is Terminated with that text, four steps lead to the    *)
(* output, and the shared state holds "LGTM" under the draft key.          *)
C7_ScenarioHoldsDraft ==
    C7_ScenarioRun =>
        /\ status = Terminated(FinalReview)
        /\ Len(SelectSeq(trace, LAMBDA e : e.event # "Output")) = 4
        /\ state["draft_comment"] = "LGTM"

\* A tool call the collaborator cannot serve: the object named is missing.
ToolFails(tool, a) ==
    \/ tool = get_file_content_tool /\ a[1] \notin ExistingFiles
    \/ tool = changed_files_tool /\ a[1] \notin ExistingCommits
    \/ tool \in { get_pr_details_tool, post_pr_comment_tool } /\ a[1] \notin ExistingPulls

\* A trace entry that reports a failed tool call.
IsToolError(e) ==
    \/ e.event = "CapabilityExecutionError"
    \/ e.event = "ToolCallResult" /\ e.detail = ErrorFetching

C9_FatalFailures ==
    /\ [](status.kind = "Failed" =>
            /\ status.info \in { "DecisionError", "StepLimitExceeded" }
            /\ \A i \in 1..Len(trace) :
                  trace[i].event \notin { "Output", "DecisionError", "StepLimitExceeded" }
            /\ result.outcome # "response"
            /\ pc = "done" => result = [ outcome |-> "raised", value |-> status.info ])
    /\ [][ (status.kind = "Running" /\ status'.kind = "Failed")
           => (trace' = trace /\ state' = state /\ steps' = steps) ]_vars

\* The decision backend failed after two decisions and main() got the
\* DecisionError.
C9_Witness ==
    /\ status = Failed("DecisionError")
    /\ steps = 2
    /\ pc = "done"
    /\ result = [ outcome |-> "raised", value |-> "DecisionError" ]

(* C10: once the run is Terminated or Failed, the status, the active       *)
(* worker, the shared state, the trace, the step counter, the executed     *)
(* tools and the posted reviews never change again.                        *)
C10_TerminalIsFinal ==
    [][ status.kind # "Running"
        => ( /\ status' = status
             /\ current_agent_name' = current_agent_name
             /\ state' = state
             /\ trace' = trace
             /\ steps' = steps
             /\ last' = last
             /\ nexec' = nexec
             /\ posted' = posted ) ]_vars

\* main() took its step after the run had terminated with steps to spare.
C10_Witness ==
    /\ status.kind = "Terminated"
    /\ pc = "done"
    /\ steps > 1
    /\ steps < MaxSteps
    /\ nexec > 0

\* Keys a worker may ask the shared state for: the seeded ones, the ones the
\* write tools assign, and one nothing ever writes.
ProbedKeys ==
    { "gathered_contexts", "draft_comment", "fina_response",
      "review_comment", "final_review_comment", "unknown_key" }

ReadTools ==
    { "get_changed_files_tool", "get_file_content_tool",
      "get_pr_list_tool", "get_pr_details_tool" }

(* C12: a decision that invokes a read tool (get_changed_files_tool,       *)
(* get_file_content_tool, get_pr_list_tool, get_pr_details_tool) leaves    *)
(* the shared state unchanged, whether the tool runs and succeeds, runs    *)
(* and fails, or is refused.                                               *)
C12_ReadsLeaveState ==
    [][ (Decided /\ last'.type = "Invoke" /\ last'.name \in ReadTools)
        => state' = state ]_vars

\* ContextAgent, after writing the gathered context, read the details of an
\* existing pull request, and the state still holds what was written.
C12_Witness ==
    /\ last = [ type |-> "Invoke", name |-> get_pr_details_tool, arg |-> <<"pr_1">> ]
    /\ current_agent_name = ContextAgent
    /\ Len(trace) > 0
    /\ LastEvent = Event("ToolCallResult", ContextAgent, "message_dict")
    /\ state["gathered_contexts"] = "LGTM"

\* The write capabilities of the registry.
WriteTools ==
    { "add_context_to_state_tool", "add_final_comment_to_state_tool",
      "add_comment_to_state_tool" }

\* The step just taken ran the write tool the decision named.
WriteInvoked ==
    /\ Decided
    /\ last'.type = "Invoke"
    /\ last'.name \in WriteTools
    /\ last'.name \in tools(current_agent_name)
    /\ nexec' = nexec + 1

(* C13: the shared state changes only in a step that runs a write tool     *)
(* (not in handoffs, outputs, read, failed or refused invocations); such a *)
(* step sets one key to the tool's argument and leaves the value of every  *)
(* other key unchanged; no key of the state is ever removed.               *)
C13_OnlyWritesChangeState ==
    [][ /\ state' # state => WriteInvoked
        /\ DOMAIN state \subseteq DOMAIN state'
        /\ WriteInvoked =>
              \E k \in DOMAIN state' :
                 /\ DOMAIN state' = DOMAIN state \cup {k}
                 /\ state'[k] = last'.arg[1]
                 /\ \A j \in DOMAIN state \ {k} : state'[j] = state[j] ]_vars

\* ReviewAndPostingAgent saved the final comment after the draft had been
\* saved: the earlier values are still there.
C13_Witness ==
    /\ last = [ type |-> "Invoke", name |-> add_final_comment_to_state_tool, arg |-> <<"LGTM">> ]
    /\ current_agent_name = ReviewAndPostingAgent
    /\ state["final_review_comment"] = "LGTM"
    /\ "review_comment" \in DOMAIN state
    /\ state["review_comment"] = "LGTM"
    /\ state["gathered_contexts"] = ""
    /\ state["draft_comment"] = ""

Stepped(r) == task'[r] # task[r] \/ store'[r] # store[r]

NotPrNumberAndComment(a) ==
    \/ Len(a) # 2
    \/ a[1] \notin PrNumbers

\* The invocation just decided was turned down for its arguments: nothing
\* ran, the state and the posted reviews are as before, the error is the
\* new trace entry and the same worker goes on in a Running run.
RejectedForArguments ==
    /\ nexec' = nexec
    /\ state' = state
    /\ posted' = posted
    /\ trace' = Append(trace, Event("InvalidArgumentError", current_agent_name, ""))
    /\ status' = Running
    /\ current_agent_name' = current_agent_name

(* C16: an authorized Invoke whose arguments do not match the tool's input *)
(* schema is rejected before the tool runs: the tool body is not executed, *)
(* the shared state is unchanged, InvalidArgumentError is recorded in the  *)
(* trace and the run stays Running with the same worker; so it is for      *)
(* post_pr_comment_tool called without an int pr_number and a comment.     *)
C16_InvalidArgumentRejected ==
    /\ [][ ( /\ Decided
             /\ last'.type = "Invoke"
             /\ last'.name \in tools(current_agent_name)
             /\ ~ValidArgs(last'.name, last'.arg) )
           => RejectedForArguments ]_vars
    /\ [][ ( /\ Decided
             /\ last'.type = "Invoke"
             /\ last'.name = post_pr_comment_tool
             /\ current_agent_name = ReviewAndPostingAgent
             /\ NotPrNumberAndComment(last'.arg) )
           => RejectedForArguments ]_vars

\* After a review was posted, ReviewAndPostingAgent called
\* post_pr_comment_tool with a text for pr_number; the call was rejected
\* and the one review is all that was posted.
C16_Witness ==
    /\ Len(trace) = 2
    /\ trace[1].event = "ToolCallResult"
    /\ LastEvent = Event("InvalidArgumentError", ReviewAndPostingAgent, "")
    /\ last = [ type |-> "Invoke", name |-> post_pr_comment_tool, arg |-> <<"LGTM", "LGTM">> ]
    /\ Len(posted) = 1
    /\ nexec = 1
    /\ status = Running

\* The workers a handoff chain of at most n links leads to from those of S.
RECURSIVE HandoffClosure(_, _)
HandoffClosure(S, n) ==
    IF n = 0 THEN S
    ELSE HandoffClosure(S \cup UNION { can_handoff_to(w) : w \in S }, n - 1)

\* The workers reachable from w through the handoff graph.
ReachableFrom(w) == HandoffClosure({ w }, Cardinality(agents))

(* C17: in the configured workflow ContextAgent becomes the active worker  *)
(* only by a Handoff decided by CommentorAgent, ReviewAndPostingAgent      *)
(* never makes ContextAgent active, every worker is reachable from the     *)
(* root and the root from every worker through the can_handoff_to lists,   *)
(* and the body of post_pr_comment_tool runs only while                    *)
(* ReviewAndPostingAgent is the active worker.                             *)
C17_HandoffGraph ==
    /\ [][ ( current_agent_name # ContextAgent /\ current_agent_name' = ContextAgent )
           => ( /\ current_agent_name = CommentorAgent
                /\ last' = [ type |-> "Handoff", name |-> ContextAgent, arg |-> <<>> ]
                /\ trace' = Append(trace, Event("Handoff", CommentorAgent, ContextAgent)) ) ]_vars
    /\ [][ current_agent_name = ReviewAndPostingAgent
           => current_agent_name' # ContextAgent ]_vars
    /\ [](\A w \in agents : /\ w \in ReachableFrom(root_agent)
                            /\ root_agent \in ReachableFrom(w))
    /\ [][ ( /\ Decided
             /\ last'.type = "Invoke"
             /\ last'.name = post_pr_comment_tool
             /\ nexec' = nexec + 1 )
           => current_agent_name = ReviewAndPostingAgent ]_vars

\* The root handed off to CommentorAgent, that to ContextAgent, the way
\* led back to the root, and there the review was posted.
C17_Witness ==
    /\ Len(trace) = 5
    /\ trace[1] = Event("Handoff", ReviewAndPostingAgent, CommentorAgent)
    /\ trace[2] = Event("Handoff", CommentorAgent, ContextAgent)
    /\ trace[3] = Event("Handoff", ContextAgent, CommentorAgent)
    /\ trace[4] = Event("Handoff", CommentorAgent, ReviewAndPostingAgent)
    /\ last.name = post_pr_comment_tool
    /\ current_agent_name = ReviewAndPostingAgent
    /\ Len(posted) = 1

\* The key that initial_state seeds for the artifact of each write tool.
SeededKeyOf(tool) ==
    CASE tool = add_context_to_state_tool -> "gathered_contexts"
      [] tool = add_draft_comment_to_state_tool -> "draft_comment"
      [] tool = add_final_comment_to_state_tool -> "fina_response"

(* C18: the shared state always holds exactly the keys initial_state       *)
(* seeded, and after a write tool has run the seeded key of its artifact   *)
(* (draft_comment for add_comment_to_state_tool, the seeded final key for  *)
(* add_final_comment_to_state_tool, gathered_contexts for                  *)
(* add_context_to_state_tool) holds the value that was passed.             *)
C18_SeededKeysWritten ==
    /\ [](DOMAIN state = DOMAIN initial_state)
    /\ [][ WriteInvoked => state'[SeededKeyOf(last'.name)] = last'.arg[1] ]_vars

\* Both calls of run 1 have returned.
BothReturned == task[1][1].pc = "done" /\ task[1][2].pc = "done"

\* The place in the run's log at which call i called store.set.
SetAt(i) == CHOOSE n \in 1..Len(oplog[1]) : oplog[1][n] = <<"set", i>>

\* Both calls performed store.get before either performed store.set.
GetsBeforeSets ==
    /\ Len(oplog[1]) = 4
    /\ oplog[1][1][1] = "get" /\ oplog[1][2][1] = "get"
    /\ oplog[1][3][1] = "set" /\ oplog[1][4][1] = "set"

(* C19: when the two write calls of a run have returned, whatever the      *)
(* order of their steps (both gets before either set included), the state  *)
(* holds both written values if they assign different keys, and the value  *)
(* of the call that performed store.set later if they assign the same key. *)
C19_NoLostWrite ==
    BothReturned =>
        LET final == heap[store[1]]
            k1 == KeyOf(task[1][1].tool)
            k2 == KeyOf(task[1][2].tool)
        IN  IF k1 # k2
            THEN /\ Get(final, k1) = task[1][1].arg
                 /\ Get(final, k2) = task[1][2].arg
            ELSE Get(final, k1) =
                    (IF SetAt(1) > SetAt(2) THEN task[1][1].arg ELSE task[1][2].arg)

\* add_context_to_state and add_draft_comment_to_state both read the state
\* before either set it, both returned, and both values are in the state.
C19_Witness ==
    /\ BothReturned
    /\ GetsBeforeSets
    /\ task[1][1].tool = add_context_to_state_tool
    /\ task[1][2].tool = add_draft_comment_to_state_tool
    /\ heap[store[1]]["gathered_contexts"] = task[1][1].arg
    /\ heap[store[1]]["review_comment"] = task[1][2].arg

====
